---- MODULE Spec2Model ----
(***************************************************************************)
(* Model of portfolio.py: a script that builds a cardinality-constrained   *)
(* long/short mean-variance model with pyomo, hands it to an external      *)
(* MIQP solver and derives portfolio statistics from the solver's values.  *)
(*                                                                         *)
(* Amounts (allocations, per-asset bounds, aggregate bounds) are counted   *)
(* in units of 0.5, so the script's 1.0 is 2 and its .5 is 1.  rho is      *)
(* counted in units of 0.5 as well.  Returns and covariances are integers  *)
(* in an arbitrary common unit.                                            *)
(***************************************************************************)
EXTENDS Integers, FiniteSets, Sequences

\* ---------------------------------------------------------------- bounds
\* Largest number of tickers in prt_array_data.txt that is explored.
MaxN == 2
\* Largest value of an allocation variable (NonNegativeReals, truncated).
MaxAlloc == 2

\* ------------------------------------------- the script's configuration
net_upper_long_bound == 2
net_lower_long_bound == 1
net_upper_short_bound == 2
net_lower_short_bound == 1
card == 15
rho == 1

VARIABLES
    investment_strs,   \* the tickers, 1..n
    return_floats,     \* ticker -> expected return
    ubounds,           \* ticker -> upper asset bound
    lbounds,           \* ticker -> lower asset bound
    cfg,               \* the user defined constraints, card and rho
    pc,                \* position of the script
    m,                 \* the constructed model, or NoModel
    status,            \* the solver's termination status, or "unsolved"
    vals,              \* the variables' .value after solve, or NoValues
    report,            \* the statistics derived at lines 110-117, or NoReport
    outcome            \* how the script ended: "running", "printed", "TypeError"

vars == <<investment_strs, return_floats, ubounds, lbounds, cfg, pc, m,
          status, vals, report, outcome>>

NoModel == [built |-> FALSE]
NoValues == <<>>
NoReport == [printed |-> FALSE]

\* ------------------------------------------------------------ input data
\* prt_array_data.txt's returns column: all gains or all losses, the
\* tickers' magnitudes distinct.
ReturnTables(n) == {[i \in 1..n |-> sgn * i] : sgn \in {-1, 1}}
UBoundVals == {1, 2}
LBoundVals == {-1, 0, 1}

\* covariance_data.txt: a symmetric positive definite table.
cov_init(i, j) == IF i = j THEN 2 ELSE 1

ScriptConfig ==
    [rho |-> rho, card |-> card,
     net_upper_long_bound |-> net_upper_long_bound,
     net_lower_long_bound |-> net_lower_long_bound,
     net_upper_short_bound |-> net_upper_short_bound,
     net_lower_short_bound |-> net_lower_short_bound]

\* The values a user may write at lines 12-19: the script's own, smaller
\* cardinality limits, a zero lower short bound, a tighter upper long bound,
\* and the out-of-range values (rho <= 0, card < 0, lo > hi).
Configs ==
    {[ScriptConfig EXCEPT !.card = c, !.net_lower_short_bound = slo] :
        c \in {0, 1, card}, slo \in {0, net_lower_short_bound}}
    \cup {[ScriptConfig EXCEPT !.net_upper_long_bound = 1,
                               !.net_lower_short_bound = 0],
          [ScriptConfig EXCEPT !.rho = 0],
          [ScriptConfig EXCEPT !.card = -1],
          [ScriptConfig EXCEPT !.net_lower_long_bound = 2,
                               !.net_upper_long_bound = 1],
          [ScriptConfig EXCEPT !.net_lower_short_bound = 2,
                               !.net_upper_short_bound = 1]}

\* ---------------------------------------------------------------- helpers
RECURSIVE Sum(_, _)
Sum(f, S) ==
    IF S = {} THEN 0
    ELSE LET x == CHOOSE y \in S : TRUE
         IN f[x] + Sum(f, S \ {x})

\* The domain of one ticker's four variables (lines 35-39).
VarDomain ==
    [allocation_s : 0..MaxAlloc, allocation_l : 0..MaxAlloc,
     d_l : {0, 1}, d_s : {0, 1}]

\* --------------------------------------------- constraint rules (58-94)
\* lflag_rule with the indicator dropped from the right-hand side.
lflag_rule_no_indicator(a, i) ==
    a[i].allocation_l <= ubounds[i]

lflag_rule(a, i) ==
    a[i].allocation_l <= a[i].d_l * ubounds[i]

\* sflag_rule as "s_i <= d_i^s * bound_i", the bound read as a magnitude.
sflag_rule_magnitude(a, i) ==
    a[i].allocation_s <= a[i].d_s * lbounds[i]

\* sflag_rule without the minus sign on the short allocation.
sflag_rule_unsigned(a, i) ==
    a[i].allocation_s >= a[i].d_s * lbounds[i]

sflag_rule(a, i) ==
    -a[i].allocation_s >= a[i].d_s * lbounds[i]

\* card_rule counting the long indicators only.
card_rule_longs_only(a) ==
    Sum([i \in investment_strs |-> a[i].d_l], investment_strs) <= cfg.card

card_rule(a) ==
    Sum([i \in investment_strs |-> a[i].d_l + a[i].d_s], investment_strs)
        <= cfg.card

\* binary_rule with the right-hand side 2: it excludes nothing.
binary_rule_two(a, i) ==
    a[i].d_l + a[i].d_s <= 2

binary_rule(a, i) ==
    a[i].d_l + a[i].d_s <= 1

netlong_rule_ub(a, i) ==
    Sum([j \in investment_strs |-> a[j].allocation_l], investment_strs)
        <= cfg.net_upper_long_bound

netlong_rule_lb(a, i) ==
    Sum([j \in investment_strs |-> a[j].allocation_l], investment_strs)
        <= cfg.net_upper_long_bound

netshrt_rule_ub(a, i) ==
    Sum([j \in investment_strs |-> a[j].allocation_s], investment_strs)
        <= cfg.net_upper_short_bound

netshrt_rule_lb(a, i) ==
    Sum([j \in investment_strs |-> a[j].allocation_s], investment_strs)
        >= cfg.net_lower_short_bound

\* ------------------------------------------ model declaration (21-104)
\* The index set of an indexed component is m.investments; a component
\* declared without an index set has the single index 0.
Scalar == {0}

VarDecls ==
    {"allocation_s", "allocation_l", "d_l", "d_s"} \X investment_strs

Objectives == {"OBJ"} \X Scalar

ConstraintDecls ==
    ({"cons_long_invest_ubs"} \X investment_strs)
    \cup ({"cons_shrt_invest_lbs"} \X investment_strs)
    \cup ({"cons_cardinality_ubs"} \X Scalar)
    \cup ({"cons_long_shrt_none"} \X investment_strs)
    \cup ({"net_long_upper"} \X investment_strs)
    \cup ({"net_long_lower"} \X investment_strs)
    \cup ({"net_short_upper"} \X investment_strs)
    \cup ({"net_short_lower"} \X investment_strs)

\* Whether assignment a satisfies the constraint <<block, index>>.
Holds(c, a) ==
    CASE c[1] = "cons_long_invest_ubs" -> lflag_rule(a, c[2])
      [] c[1] = "cons_shrt_invest_lbs" -> sflag_rule(a, c[2])
      [] c[1] = "cons_cardinality_ubs" -> card_rule(a)
      [] c[1] = "cons_long_shrt_none" -> binary_rule(a, c[2])
      [] c[1] = "net_long_upper" -> netlong_rule_ub(a, c[2])
      [] c[1] = "net_long_lower" -> netlong_rule_lb(a, c[2])
      [] c[1] = "net_short_upper" -> netshrt_rule_ub(a, c[2])
      [] c[1] = "net_short_lower" -> netshrt_rule_lb(a, c[2])

\* The blocks whose rule reads the variables of its own ticker only.
PerAssetBlocks ==
    {"cons_long_invest_ubs", "cons_shrt_invest_lbs", "cons_long_shrt_none"}

\* The values of ticker i's variables that its own constraints admit.
AssetChoices(i) ==
    {v \in VarDomain :
        \A c \in m.constraints :
            (c[1] \in PerAssetBlocks /\ c[2] = i)
                => Holds(c, [j \in {i} |-> v])}

RECURSIVE Candidates(_)
Candidates(k) ==
    IF k = 0 THEN {<<>>}
    ELSE {Append(p, v) : p \in Candidates(k - 1), v \in AssetChoices(k)}

\* The assignments that satisfy every constraint of the constructed model.
Feasible ==
    {a \in Candidates(Cardinality(investment_strs)) :
        \A c \in m.constraints : Holds(c, a)}

\* ------------------------------------------------- results (110-117)
net(a, i) == a[i].allocation_l - a[i].allocation_s

rs(a) ==
    Sum([i \in investment_strs |-> return_floats[i] * net(a, i)],
        investment_strs)

covs(a) ==
    Sum([i \in investment_strs |->
            Sum([j \in investment_strs |->
                    cov_init(i, j) * net(a, i) * net(a, j)],
                investment_strs)],
        investment_strs)

cards(a) ==
    Sum([i \in investment_strs |-> a[i].d_l + a[i].d_s], investment_strs)

tlong(a) ==
    Sum([i \in investment_strs |-> a[i].d_l * a[i].allocation_l],
        investment_strs)

clong(a) == Sum([i \in investment_strs |-> a[i].d_l], investment_strs)

tshrt(a) ==
    Sum([i \in investment_strs |-> a[i].d_s * a[i].allocation_s],
        investment_strs)

cshrt(a) == Sum([i \in investment_strs |-> a[i].d_s], investment_strs)

\* sqrt(252)*rs / sqrt(covs) in numpy float64 arithmetic: 0/0 and the root
\* of a negative number are nan, x/0 is +-inf; none of them raises.
ann_sharpe(r, c) ==
    IF c < 0 THEN <<"nan">>
    ELSE IF c = 0
         THEN (IF r = 0 THEN <<"nan">>
               ELSE IF r > 0 THEN <<"inf">> ELSE <<"-inf">>)
         ELSE <<"finite", r, c>>

\* ----------------------------------------------------------------- steps
Tickers(n) == 1..n

Init ==
    /\ \E n \in 1..MaxN :
        /\ investment_strs = Tickers(n)
        /\ return_floats \in ReturnTables(n)
        /\ ubounds \in [Tickers(n) -> UBoundVals]
        /\ lbounds \in [Tickers(n) -> LBoundVals]
    /\ cfg \in Configs
    /\ pc = "configured"
    /\ m = NoModel
    /\ status = "unsolved"
    /\ vals = NoValues
    /\ report = NoReport
    /\ outcome = "running"

\* Lines 21-104 and 107: declare the components and construct the model.
Build ==
    /\ pc = "configured"
    /\ m' = [built |-> TRUE, variables |-> VarDecls,
             objectives |-> Objectives, constraints |-> ConstraintDecls]
    /\ pc' = "constructed"
    /\ UNCHANGED <<investment_strs, return_floats, ubounds, lbounds, cfg,
                   status, vals, report, outcome>>

\* Lines 41-57, eight times over: amounts and rho are counted in halves.
obj_rule(a) == 4 * rs(a) - cfg.rho * covs(a)

\* Line 96, sense=maximize: the assignments of F with the largest objective.
Maximizers(F) ==
    IF F = {} THEN {}
    ELSE LET objs == {obj_rule(a) : a \in F}
             best == CHOOSE v \in objs : \A w \in objs : w <= v
         IN {a \in F : obj_rule(a) = best}

\* What opt.solve(m) may leave behind: a termination status and the values
\* of the variables (None where no solution was loaded).  An optimal
\* solution maximizes the objective over the feasible assignments; after a
\* time-out the incumbent, any feasible assignment, may be loaded.
SolveResults ==
    LET F == Feasible
    IN {<<"Optimal", a>> : a \in Maximizers(F)}
       \cup {<<"TimedOut", a>> : a \in F}
       \cup {<<st, NoValues>> : st \in {"Unbounded", "SolverError", "TimedOut"}}
       \cup (IF F = {} THEN {<<"Infeasible", NoValues>>} ELSE {})

\* Lines 106 and 108.
Solve ==
    /\ pc = "constructed"
    /\ \E r \in SolveResults :
        /\ status' = r[1]
        /\ vals' = r[2]
    /\ pc' = "solved"
    /\ UNCHANGED <<investment_strs, return_floats, ubounds, lbounds, cfg,
                   m, report, outcome>>

\* Lines 110-129.  Line 110 subtracts the variables' values: where they are
\* None it raises TypeError and the script ends there.
Analyze ==
    /\ pc = "solved"
    /\ pc' = "done"
    /\ IF vals = NoValues
       THEN /\ outcome' = "TypeError"
            /\ report' = NoReport
       ELSE /\ outcome' = "printed"
            /\ report' = [printed |-> TRUE,
                          rs |-> rs(vals), covs |-> covs(vals),
                          cards |-> cards(vals),
                          tlong |-> tlong(vals), clong |-> clong(vals),
                          tshrt |-> tshrt(vals), cshrt |-> cshrt(vals),
                          ann_sharpe |-> ann_sharpe(rs(vals), covs(vals))]
    /\ UNCHANGED <<investment_strs, return_floats, ubounds, lbounds, cfg,
                   m, status, vals>>

Next == Build \/ Solve \/ Analyze

Spec == Init /\ [][Next]_vars

\* ------------------------------------------------ vocabulary of the claims
HasValues == vals # NoValues

SumL(a) == Sum([i \in investment_strs |-> a[i].allocation_l], investment_strs)

SumS(a) == Sum([i \in investment_strs |-> a[i].allocation_s], investment_strs)

NonOptimal == {"Infeasible", "Unbounded", "SolverError", "TimedOut"}

ValidConfig(c) ==
    /\ c.rho > 0
    /\ c.card >= 0
    /\ c.net_lower_long_bound <= c.net_upper_long_bound
    /\ c.net_lower_short_bound <= c.net_upper_short_bound

\* The pairs (s_i, d_i^s) that the emitted short-bound constraint of ticker
\* i admits, the ticker's other variables being 0.
ShortPairs == [allocation_s : 0..MaxAlloc, d_s : {0, 1}]

AdmitsShort(i, p) ==
    /\ <<"cons_shrt_invest_lbs", i>> \in m.constraints
    /\ Holds(<<"cons_shrt_invest_lbs", i>>,
             [j \in {i} |-> [allocation_s |-> p.allocation_s, d_s |-> p.d_s,
                             allocation_l |-> 0, d_l |-> 0]])

BlockSize(name) == Cardinality({c \in m.constraints : c[1] = name})

\* ------------------------------------------------------------------ claims

\* C1: every assignment that satisfies the emitted constraints keeps the
\* total long allocation between the net lower and the net upper long bound.
C1_NetLongWithinBounds ==
    HasValues =>
        /\ cfg.net_lower_long_bound <= SumL(vals)
        /\ SumL(vals) <= cfg.net_upper_long_bound

\* C2 (as stated): for a ticker with a non-negative bound B_i the emitted
\* short-bound constraint admits exactly the pairs with 0 <= s_i <= d_i^s * B_i.
C2_ShortBoundAsMagnitude ==
    m.built =>
        \A i \in investment_strs :
            lbounds[i] >= 0 =>
                \A p \in ShortPairs :
                    AdmitsShort(i, p)
                        <=> (p.allocation_s <= p.d_s * lbounds[i])

\* C2 (amended): the bound is a signed lower bound.  For a ticker whose lower
\* bound is -B_i <= 0 the emitted constraint admits exactly the pairs with
\* 0 <= s_i <= d_i^s * B_i; for a ticker whose lower bound is positive it
\* admits only s_i = 0 with d_i^s = 0.  Values the solver returns obey it.
C2_ShortBoundSigned ==
    /\ m.built =>
        \A i \in investment_strs :
            \A p \in ShortPairs :
                AdmitsShort(i, p)
                    <=> IF lbounds[i] <= 0
                        THEN p.allocation_s <= p.d_s * (-lbounds[i])
                        ELSE p.allocation_s = 0 /\ p.d_s = 0
    /\ HasValues =>
        \A i \in investment_strs :
            vals[i].allocation_s <= vals[i].d_s * (-lbounds[i])

\* A solved model in which a ticker with a negative lower bound is short.
C2_Witness ==
    /\ HasValues
    /\ \E i \in investment_strs :
        /\ lbounds[i] < 0
        /\ vals[i].d_s = 1
        /\ vals[i].allocation_s > 0

\* C3: in every assignment that satisfies the constraints the indicators sum
\* to at most the cardinality limit, and so does the reported number of names.
C3_Cardinality ==
    /\ HasValues => cards(vals) <= cfg.card
    /\ report.printed => report.cards <= cfg.card

\* An optimal solution that uses the whole, positive, cardinality limit.
C3_Witness ==
    /\ report.printed
    /\ status = "Optimal"
    /\ cfg.card > 0
    /\ report.cards = cfg.card

\* C4: in every assignment that satisfies the constraints no ticker has both
\* indicators 1, and no ticker has a positive long and a positive short
\* allocation.
C4_Exclusivity ==
    HasValues =>
        \A i \in investment_strs :
            /\ ~(vals[i].d_l = 1 /\ vals[i].d_s = 1)
            /\ ~(vals[i].allocation_l > 0 /\ vals[i].allocation_s > 0)

\* A solution with one ticker long and another short, each with an amount.
C4_Witness ==
    /\ HasValues
    /\ \E i, j \in investment_strs :
        /\ i # j
        /\ vals[i].d_l = 1 /\ vals[i].allocation_l > 0
        /\ vals[j].d_s = 1 /\ vals[j].allocation_s > 0

\* C5: the builder emits one objective, 4n variables, n long-bound, n
\* short-bound and n exclusivity constraints, one cardinality constraint and
\* one constraint per aggregate bound: 3n + 5 constraints.
C5_ComponentCounts ==
    m.built =>
        LET n == Cardinality(investment_strs)
        IN /\ Cardinality(m.objectives) = 1
           /\ Cardinality(m.variables) = 4 * n
           /\ BlockSize("cons_long_invest_ubs") = n
           /\ BlockSize("cons_shrt_invest_lbs") = n
           /\ BlockSize("cons_long_shrt_none") = n
           /\ BlockSize("cons_cardinality_ubs") = 1
           /\ BlockSize("net_long_upper") = 1
           /\ BlockSize("net_long_lower") = 1
           /\ BlockSize("net_short_upper") = 1
           /\ BlockSize("net_short_lower") = 1
           /\ Cardinality(m.constraints) = 3 * n + 5

\* C6: when the solver's status is not Optimal the analysis never runs: no
\* statistic is derived, and the script ends with that status, not otherwise.
C6_NoAnalysisUnlessOptimal ==
    status \in NonOptimal =>
        /\ report = NoReport
        /\ outcome \in {"running", status}

\* C7: for values that are all zero the analyzer computes volatility 0 and
\* reports the Sharpe ratio as undefined (or ends in DegenerateRiskError),
\* never as the result of the division by zero.
C7_DegenerateSharpeUndefined ==
    (/\ pc = "done"
     /\ HasValues
     /\ \A i \in investment_strs :
            vals[i].allocation_l = 0 /\ vals[i].allocation_s = 0)
        => \/ outcome = "DegenerateRiskError"
           \/ /\ report.printed
              /\ report.covs = 0
              /\ report.ann_sharpe = <<"undefined">>

\* C8: an out-of-range configuration (rho <= 0, card < 0, lo > hi) ends the
\* run in InvalidConfigError before any model is built or solved.
C8_ConfigValidatedFirst ==
    ~ValidConfig(cfg) =>
        /\ ~m.built
        /\ status = "unsolved"
        /\ pc = "configured" \/ outcome = "InvalidConfigError"

\* C9: for values that satisfy the constraints the reported total long and
\* short allocations equal the plain sums of l_i and of s_i.
C9_TotalsArePlainSums ==
    report.printed =>
        /\ report.tlong = SumL(vals)
        /\ report.tshrt = SumS(vals)

\* A report with a positive total on the long and on the short side.
C9_Witness ==
    /\ report.printed
    /\ report.tlong > 0
    /\ report.tshrt > 0

\* C10: a ticker whose lower bound is non-negative has s_i = 0 in every
\* assignment that satisfies the constraints; if all lower bounds are
\* non-negative and the net lower short bound is positive, no assignment
\* satisfies them, so the solver never returns values.
C10_NonNegativeBoundForbidsShort ==
    /\ HasValues =>
        \A i \in investment_strs :
            lbounds[i] >= 0 => vals[i].allocation_s = 0
    /\ ((\A i \in investment_strs : lbounds[i] >= 0)
            /\ cfg.net_lower_short_bound > 0) =>
        /\ pc = "constructed" => Feasible = {}
        /\ status # "Optimal"
        /\ ~HasValues

\* The script's own configuration with non-negative lower bounds: the
\* solver finds the model infeasible.
C10_Witness ==
    /\ cfg = ScriptConfig
    /\ \A i \in investment_strs : lbounds[i] >= 0
    /\ status = "Infeasible"

====
